---- MODULE Spec2Model ----
(***************************************************************************)
(* Model of stk::BiQuad (src/src/BiQuad.cpp): the coefficient state of a   *)
(* two-pole, two-zero filter and the operations that derive it.            *)
(*                                                                         *)
(* StkFloat values are modelled as pairs <<n, d>>: a reduced fraction n/d  *)
(* with d > 0, or one of the IEEE non-finite values, which have d = 0:     *)
(* <<1,0>> is +infinity, <<-1,0>> is -infinity and <<0,0>> is NaN.         *)
(* Arithmetic is exact on the finite values (rounding is not modelled) and *)
(* follows IEEE 754 on the non-finite ones; zero carries no sign.          *)
(* Equality of two modelled values is identity of the value stored.        *)
(***************************************************************************)
EXTENDS Integers, Sequences, FiniteSets, TLC

(* ------------------------------ bounds --------------------------------- *)
\* operations called on the filter after its construction
MaxCalls == 2
\* radius arguments are k/2 for k in -1..MaxRadiusHalves
MaxRadiusHalves == 2
\* the coefficient vectors handed to setCoefficients are the multiples
\* k * <<1/2, 1, 3/2, 2, 5/2>> for k in -1..MaxRawScale
MaxRawScale == 0
\* sample rates are 8*k for k in 1..MaxRateScale
MaxRateScale == 2

(* --------------------------- StkFloat values --------------------------- *)
Abs(n) == IF n < 0 THEN -n ELSE n

Sgn(n) == IF n < 0 THEN -1 ELSE IF n = 0 THEN 0 ELSE 1

RECURSIVE GCD(_, _)
GCD(m, n) == IF n = 0 THEN m ELSE GCD(n, m % n)

Norm(n, d) ==
  IF d = 0 THEN <<Sgn(n), 0>>
  ELSE LET g == GCD(Abs(n), Abs(d))
           s == IF d < 0 THEN -1 ELSE 1
       IN  <<s * (n \div g), s * (d \div g)>>

Rat(n, d) == Norm(n, d)

Zero == <<0, 1>>

One == <<1, 1>>

Two == <<2, 1>>

Half == <<1, 2>>

NaN == <<0, 0>>

IsNaN(x) == x = NaN

Neg(x) == <<-x[1], x[2]>>

Mul(x, y) == Norm(x[1] * y[1], x[2] * y[2])

Add(x, y) ==
  IF x[2] = 0 /\ y[2] = 0 THEN (IF x = y THEN x ELSE NaN)
  ELSE Norm(x[1] * y[2] + y[1] * x[2], x[2] * y[2])

Sub(x, y) == Add(x, Neg(y))

Div(x, y) == Mul(x, Norm(y[2], y[1]))

\* x < y; false when either side is NaN
Less(x, y) ==
  IF IsNaN(x) \/ IsNaN(y) THEN FALSE
  ELSE IF x[2] = 0 \/ y[2] = 0
       THEN x # y /\ (x = <<-1, 0>> \/ y = <<1, 0>>)
       ELSE x[1] * y[2] < y[1] * x[2]

\* x >= y; false when either side is NaN
Geq(x, y) == ~IsNaN(x) /\ ~IsNaN(y) /\ ~Less(x, y)

\* tan of the double nearest to pi/2: a large finite positive value
TanHalfPi == <<1024, 1>>

\* cos(pi * t), tabulated where it is rational: t a multiple of 1/2
CosPi(t) ==
  LET q == ((2 * t[1]) \div t[2]) % 4
  IN  CASE q = 0 -> One
        [] q = 1 -> Zero
        [] q = 2 -> Neg(One)
        [] q = 3 -> Zero

\* tan(pi * t), tabulated where it is rational: t a multiple of 1/4
TanPi(t) ==
  LET q == ((4 * t[1]) \div t[2]) % 4
  IN  CASE q = 0 -> Zero
        [] q = 1 -> One
        [] q = 2 -> TanHalfPi
        [] q = 3 -> Neg(One)

(* ------------------------------ inputs --------------------------------- *)
Rates == { Rat(8 * k, 1) : k \in 1..MaxRateScale }

\* frequencies on the grid where cos and tan are tabulated: one below zero,
\* zero, a quarter of the rate, the Nyquist frequency and one above it
Frequencies(rate) == { Mul(Rat(k, 4), rate) : k \in -1..3 }

Radii == { Rat(k, 2) : k \in -1..MaxRadiusHalves }

\* a negative Q, the unguarded Q = 0 and a positive Q
QValues == { Rat(-1, 2), Zero, One }

RawVectors ==
  { <<Rat(k, 2), Rat(2 * k, 2), Rat(3 * k, 2), Rat(4 * k, 2), Rat(5 * k, 2)>> :
      k \in -1..MaxRawScale }

FilterTypes == {"LowPass", "HighPass", "BandPass", "BandReject", "AllPass"}

\* the values a FilterType argument can hold, a cast integer included
TypeValues == FilterTypes \cup {"Invalid"}

(* ------------------------------- state --------------------------------- *)
\* b_, a_                  the coefficient vectors, indexed 0..2
\* srate                   Stk::sampleRate()
\* ignoreSampleRateChange_ the Stk flag read by sampleRateChanged
\* debug                   whether the build defines _STK_DEBUG_
\* call                    the last operation called and its arguments
\* warnings, clears        the handleError(WARNING) and clear() calls it made
\* calls                   the number of operations called so far
VARIABLES b_, a_, srate, ignoreSampleRateChange_, debug, call, warnings,
          clears, calls

vars ==
  <<b_, a_, srate, ignoreSampleRateChange_, debug, call, warnings, clears, calls>>

\* the outcome of one call: the coefficient vectors it leaves, the number
\* of warnings it hands to handleError and the number of clear() calls
Result(b, a, w, c) == [b |-> b, a |-> a, warnings |-> w, clears |-> c]

NoCall ==
  [op |-> "BiQuad", filterType |-> "Invalid", frequency |-> Zero,
   param |-> Zero, flag |-> FALSE, raw |-> <<Zero, Zero, Zero, Zero, Zero>>]

BiQuad ==
  Result([i \in 0..2 |-> IF i = 0 THEN One ELSE Zero],
         [i \in 0..2 |-> IF i = 0 THEN One ELSE Zero], 0, 0)

\* rates are multiples of 8 so that the frequency grid is exact; the filter
\* is constructed at the lowest one
Constructed ==
  /\ b_ = BiQuad.b
  /\ a_ = BiQuad.a
  /\ srate = Rat(8, 1)
  /\ ignoreSampleRateChange_ = FALSE
  /\ call = NoCall
  /\ warnings = 0
  /\ clears = 0
  /\ calls = 0

\* a build with _STK_DEBUG_ defined: the argument checks are compiled in
Init == Constructed /\ debug = TRUE

\* a build without _STK_DEBUG_
InitRelease == Constructed /\ debug = FALSE

(* ----------------------------- operations ------------------------------ *)
setCoefficientsSlip(b, a, b0, b1, b2, a1, a2, clearState) ==
  Result([b EXCEPT ![0] = b0, ![1] = b1, ![2] = b2],
         [a EXCEPT ![0] = a1, ![2] = a2],
         0, IF clearState THEN 1 ELSE 0)

setCoefficientsAlwaysClear(b, a, b0, b1, b2, a1, a2, clearState) ==
  Result([b EXCEPT ![0] = b0, ![1] = b1, ![2] = b2],
         [a EXCEPT ![1] = a1, ![2] = a2],
         0, 1)

setCoefficients(b, a, b0, b1, b2, a1, a2, clearState) ==
  Result([b EXCEPT ![0] = b0, ![1] = b1, ![2] = b2],
         [a EXCEPT ![1] = a1, ![2] = a2],
         0, IF clearState THEN 1 ELSE 0)

sampleRateChangedAlwaysWarns(b, a, ignore, newRate, oldRate) ==
  Result(b, a, 1, 0)

sampleRateChanged(b, a, ignore, newRate, oldRate) ==
  Result(b, a, IF ~ignore THEN 1 ELSE 0, 0)

\* frequency < 0.0 || frequency > 0.5 * Stk::sampleRate()
FrequencyOutOfRange(frequency, rate) ==
  Less(frequency, Zero) \/ Less(Mul(Half, rate), frequency)

ResonanceRadiusOutOfRangeInclusive(radius) ==
  Less(radius, Zero) \/ Less(One, radius)

ResonanceRadiusOutOfRange(radius) ==
  Less(radius, Zero) \/ Geq(radius, One)

\* cos( TWO_PI * frequency / Stk::sampleRate() )
CosTwoPi(frequency, rate) == CosPi(Div(Mul(Two, frequency), rate))

ResonanceNumeratorAlways(b, a2, normalize) ==
  LET b0 == Sub(Half, Mul(Half, a2))
  IN  [b EXCEPT ![0] = b0, ![1] = Zero, ![2] = Neg(b0)]

ResonanceNumerator(b, a2, normalize) ==
  IF normalize
  THEN LET b0 == Sub(Half, Mul(Half, a2))
       IN  [b EXCEPT ![0] = b0, ![1] = Zero, ![2] = Neg(b0)]
  ELSE b

setResonance(b, a, rate, dbg, frequency, radius, normalize) ==
  IF dbg /\ FrequencyOutOfRange(frequency, rate)
  THEN Result(b, a, 1, 0)
  ELSE IF dbg /\ ResonanceRadiusOutOfRange(radius)
  THEN Result(b, a, 1, 0)
  ELSE LET a2 == Mul(radius, radius)
           a1 == Mul(Mul(Neg(Two), radius), CosTwoPi(frequency, rate))
       IN  Result(ResonanceNumerator(b, a2, normalize),
                  [a EXCEPT ![2] = a2, ![1] = a1], 0, 0)

NotchFrequencyOutOfRangeBelow(frequency, rate) == Less(frequency, Zero)

NotchFrequencyOutOfRange(frequency, rate) == FrequencyOutOfRange(frequency, rate)

NotchRadiusOutOfRangeAsResonance(radius) ==
  Less(radius, Zero) \/ Geq(radius, One)

NotchRadiusOutOfRange(radius) == Less(radius, Zero)

setNotch(b, a, rate, dbg, frequency, radius) ==
  IF dbg /\ NotchFrequencyOutOfRange(frequency, rate)
  THEN Result(b, a, 1, 0)
  ELSE IF dbg /\ NotchRadiusOutOfRange(radius)
  THEN Result(b, a, 1, 0)
  ELSE Result([b EXCEPT ![2] = Mul(radius, radius),
                        ![1] = Mul(Mul(Neg(Two), radius),
                                   CosTwoPi(frequency, rate))],
              a, 0, 0)

\* K = tan(PI * frequency / Stk::sampleRate())
FilterK(frequency, rate) == TanPi(Div(frequency, rate))

\* denom = 1 / (kSqr * Q + K + Q)
FilterDenom(K, Q) == Div(One, Add(Add(Mul(Mul(K, K), Q), K), Q))

FilterA1(K, Q) ==
  Mul(Mul(Mul(Two, Q), Sub(Mul(K, K), One)), FilterDenom(K, Q))

FilterA2(K, Q) ==
  Mul(Add(Sub(Mul(Mul(K, K), Q), K), Q), FilterDenom(K, Q))

\* the assignments common to all filter types
FilterDenominator(a, K, Q) ==
  [a EXCEPT ![1] = FilterA1(K, Q), ![2] = FilterA2(K, Q)]

\* the switch on filterType; a is a_ as FilterDenominator has left it
FilterNumerator(b, a, filterType, K, Q) ==
  LET kSqr == Mul(K, K)
      denom == FilterDenom(K, Q)
  IN  CASE filterType = "LowPass" ->
             LET b0 == Mul(Mul(kSqr, Q), denom)
             IN  Result([b EXCEPT ![0] = b0, ![1] = Mul(Two, b0), ![2] = b0],
                        a, 0, 0)
        [] filterType = "HighPass" ->
             LET b0 == Mul(Q, denom)
             IN  Result([b EXCEPT ![0] = b0, ![1] = Mul(Neg(Two), b0),
                                  ![2] = b0], a, 0, 0)
        [] filterType = "BandPass" ->
             LET b0 == Mul(K, denom)
             IN  Result([b EXCEPT ![0] = b0, ![1] = Zero, ![2] = Neg(b0)],
                        a, 0, 0)
        [] filterType = "BandReject" ->
             LET b0 == Mul(Mul(Q, Add(kSqr, One)), denom)
             IN  Result([b EXCEPT ![0] = b0,
                           ![1] = Mul(Mul(Mul(Two, Q), Sub(kSqr, One)), denom),
                           ![2] = b0], a, 0, 0)
        [] filterType = "AllPass" ->
             Result([b EXCEPT ![0] = a[2], ![1] = a[1], ![2] = One], a, 0, 0)
        [] OTHER -> Result(b, a, 1, 0)

setFilterTypeSwitchFirst(b, a, rate, dbg, filterType, frequency, Q) ==
  IF dbg /\ Less(frequency, Zero)
  THEN Result(b, a, 1, 0)
  ELSE IF dbg /\ Less(Q, Zero)
  THEN Result(b, a, 1, 0)
  ELSE LET K == FilterK(frequency, rate)
           r == FilterNumerator(b, a, filterType, K, Q)
       IN  Result(r.b, FilterDenominator(a, K, Q), r.warnings, r.clears)

setFilterType(b, a, rate, dbg, filterType, frequency, Q) ==
  IF dbg /\ Less(frequency, Zero)
  THEN Result(b, a, 1, 0)
  ELSE IF dbg /\ Less(Q, Zero)
  THEN Result(b, a, 1, 0)
  ELSE LET K == FilterK(frequency, rate)
       IN  FilterNumerator(b, FilterDenominator(a, K, Q), filterType, K, Q)

setEqualGainZeroesSlip(b, a) ==
  Result([b EXCEPT ![0] = One, ![1] = Zero, ![2] = One], a, 0, 0)

setEqualGainZeroes(b, a) ==
  Result([b EXCEPT ![0] = One, ![1] = Zero, ![2] = Neg(One)], a, 0, 0)

(* ------------------------------- actions ------------------------------- *)
\* a call leaves its outcome in the state and its arguments in call
Apply(r, c) ==
  /\ calls < MaxCalls
  /\ calls' = calls + 1
  /\ b_' = r.b
  /\ a_' = r.a
  /\ warnings' = r.warnings
  /\ clears' = r.clears
  /\ call' = c
  /\ UNCHANGED debug

CallSetCoefficients(b0, b1, b2, a1, a2, clearState) ==
  /\ Apply(setCoefficients(b_, a_, b0, b1, b2, a1, a2, clearState),
           [NoCall EXCEPT !.op = "setCoefficients", !.flag = clearState,
                          !.raw = <<b0, b1, b2, a1, a2>>])
  /\ UNCHANGED <<srate, ignoreSampleRateChange_>>

\* Stk::setSampleRate has stored newRate when it alerts the filter
CallSampleRateChanged(newRate, oldRate) ==
  /\ oldRate = srate
  /\ newRate # oldRate
  /\ srate' = newRate
  /\ Apply(sampleRateChanged(b_, a_, ignoreSampleRateChange_, newRate, oldRate),
           [NoCall EXCEPT !.op = "sampleRateChanged", !.frequency = newRate,
                          !.param = oldRate])
  /\ UNCHANGED ignoreSampleRateChange_

\* Stk::ignoreSampleRateChange( bool ignore )
CallIgnoreSampleRateChange(ignore) ==
  /\ ignoreSampleRateChange_' = ignore
  /\ Apply(Result(b_, a_, 0, 0),
           [NoCall EXCEPT !.op = "ignoreSampleRateChange", !.flag = ignore])
  /\ UNCHANGED srate

CallSetResonance(frequency, radius, normalize) ==
  /\ Apply(setResonance(b_, a_, srate, debug, frequency, radius, normalize),
           [NoCall EXCEPT !.op = "setResonance", !.frequency = frequency,
                          !.param = radius, !.flag = normalize])
  /\ UNCHANGED <<srate, ignoreSampleRateChange_>>

CallSetNotch(frequency, radius) ==
  /\ Apply(setNotch(b_, a_, srate, debug, frequency, radius),
           [NoCall EXCEPT !.op = "setNotch", !.frequency = frequency,
                          !.param = radius])
  /\ UNCHANGED <<srate, ignoreSampleRateChange_>>

CallSetFilterType(filterType, frequency, Q) ==
  /\ Apply(setFilterType(b_, a_, srate, debug, filterType, frequency, Q),
           [NoCall EXCEPT !.op = "setFilterType", !.filterType = filterType,
                          !.frequency = frequency, !.param = Q])
  /\ UNCHANGED <<srate, ignoreSampleRateChange_>>

CallSetEqualGainZeroes ==
  /\ Apply(setEqualGainZeroes(b_, a_),
           [NoCall EXCEPT !.op = "setEqualGainZeroes"])
  /\ UNCHANGED <<srate, ignoreSampleRateChange_>>

Next ==
  \/ \E v \in RawVectors, clearState \in BOOLEAN :
       CallSetCoefficients(v[1], v[2], v[3], v[4], v[5], clearState)
  \/ \E newRate, oldRate \in Rates : CallSampleRateChanged(newRate, oldRate)
  \/ \E ignore \in BOOLEAN : CallIgnoreSampleRateChange(ignore)
  \/ \E frequency \in Frequencies(srate), radius \in Radii,
        normalize \in BOOLEAN :
       CallSetResonance(frequency, radius, normalize)
  \/ \E frequency \in Frequencies(srate), radius \in Radii :
       CallSetNotch(frequency, radius)
  \/ \E filterType \in TypeValues, frequency \in Frequencies(srate),
        Q \in QValues :
       CallSetFilterType(filterType, frequency, Q)
  \/ CallSetEqualGainZeroes

\* the build with the argument checks
Spec == Init /\ [][Next]_vars

\* the build without them
SpecRelease == InitRelease /\ [][Next]_vars

(* ------------------------------- claims -------------------------------- *)
\* the five coefficients are the same before and after the step
CoefficientsKept ==
  /\ b_'[0] = b_[0] /\ b_'[1] = b_[1] /\ b_'[2] = b_[2]
  /\ a_'[1] = a_[1] /\ a_'[2] = a_[2]

\* 0 <= frequency <= Nyquist, half the sample rate
InRange(frequency, rate) ==
  Geq(frequency, Zero) /\ Geq(Mul(Half, rate), frequency)

\* the step is a call of op
Called(op) == calls' = calls + 1 /\ call'.op = op

\* C1: setFilterType with a type value that is none of the five filter
\* types, and a valid frequency and Q, leaves all five coefficients at
\* their pre-call values and emits a warning.  (Q = 0, where the formulas
\* divide by zero, is left out of the valid arguments here.)
C1_InvalidTypeKeepsCoefficients ==
  [][(/\ Called("setFilterType")
      /\ call'.filterType \notin FilterTypes
      /\ InRange(call'.frequency, srate)
      /\ Less(Zero, call'.param))
     => (CoefficientsKept /\ warnings' = 1)]_vars

\* C2 as stated: with validation enabled, setResonance, setNotch and
\* setFilterType called with a frequency outside [0, Nyquist] warn and leave
\* all five coefficients at their pre-call values.
C2_FrequencyOutsideRangeRejected ==
  [][(/\ debug
      /\ \/ Called("setResonance")
         \/ Called("setNotch")
         \/ Called("setFilterType")
      /\ ~InRange(call'.frequency, srate))
     => (CoefficientsKept /\ warnings' >= 1)]_vars

\* C2 amended: with validation enabled, setResonance and setNotch called
\* with a frequency outside [0, Nyquist], and setFilterType called with a
\* negative frequency, warn once and leave all five coefficients at their
\* pre-call values.
C2_FrequencyRejectedAsChecked ==
  [][(/\ debug
      /\ \/ /\ Called("setResonance") \/ Called("setNotch")
            /\ ~InRange(call'.frequency, srate)
         \/ /\ Called("setFilterType")
            /\ Less(call'.frequency, Zero))
     => (CoefficientsKept /\ warnings' = 1)]_vars

\* setNotch has rejected a frequency above Nyquist on a filter whose
\* coefficients are no longer those of construction
C2_Witness ==
  /\ debug
  /\ call.op = "setNotch"
  /\ Less(Mul(Half, srate), call.frequency)
  /\ warnings = 1
  /\ a_[2] # Zero

\* C3: with validation enabled, setResonance with radius < 0 or radius >= 1,
\* setNotch with radius < 0 and setFilterType with Q < 0 leave all five
\* coefficients at their pre-call values and warn exactly once, whether or
\* not the frequency of the same call is out of range too.
C3_BadRadiusOrQRejectedOnce ==
  [][(/\ debug
      /\ \/ /\ Called("setResonance")
            /\ Less(call'.param, Zero) \/ Geq(call'.param, One)
         \/ /\ Called("setNotch")
            /\ Less(call'.param, Zero)
         \/ /\ Called("setFilterType")
            /\ Less(call'.param, Zero))
     => (CoefficientsKept /\ warnings' = 1)]_vars

\* setResonance has been called with radius 1 and a frequency above Nyquist
\* on a filter whose coefficients are no longer those of construction
C3_Witness ==
  /\ debug
  /\ call.op = "setResonance"
  /\ call.param = One
  /\ Less(Mul(Half, srate), call.frequency)
  /\ warnings = 1
  /\ b_[1] # Zero

\* C4: in every reachable state the leading denominator coefficient a0 is
\* exactly 1.
C4_LeadingDenominatorIsOne == a_[0] = One

\* setCoefficients has written non-zero denominator coefficients
C4_Witness ==
  /\ call.op = "setCoefficients"
  /\ a_[1] # Zero
  /\ a_[2] # Zero

\* C5: setCoefficients assigns all five coefficients the values supplied,
\* without validation, and sends one state-reset signal when clearState is
\* true and none when it is false.
C5_SetCoefficientsAssignsAndClears ==
  call.op = "setCoefficients" =>
    /\ <<b_[0], b_[1], b_[2], a_[1], a_[2]>> = call.raw
    /\ warnings = 0
    /\ clears = IF call.flag THEN 1 ELSE 0

\* setCoefficients has been called with negative values and clearState false
C5_Witness ==
  /\ call.op = "setCoefficients"
  /\ ~call.flag
  /\ clears = 0
  /\ Less(call.raw[1], Zero)
  /\ b_[0] = call.raw[1]

\* C6: for valid (frequency, radius), setResonance with normalize = false
\* leaves b0, b1 and b2 at their pre-call values; with normalize = true it
\* leaves b1 = 0 and b2 = -b0.
C6_ResonanceNumerator ==
  [][(/\ Called("setResonance")
      /\ InRange(call'.frequency, srate)
      /\ Geq(call'.param, Zero) /\ Less(call'.param, One))
     => IF call'.flag
        THEN b_'[1] = Zero /\ b_'[2] = Neg(b_'[0])
        ELSE b_'[0] = b_[0] /\ b_'[1] = b_[1] /\ b_'[2] = b_[2]]_vars

\* setResonance without normalisation has moved the poles of a filter whose
\* numerator is not that of a normalised resonance
C6_Witness ==
  /\ call.op = "setResonance"
  /\ ~call.flag
  /\ InRange(call.frequency, srate)
  /\ Geq(call.param, Zero) /\ Less(call.param, One)
  /\ a_[2] # Zero
  /\ b_[1] # Zero

\* C7: setNotch with 0 <= frequency <= Nyquist and any radius >= 0, also
\* radius >= 1, is accepted without a warning, writes b1 and b2 and leaves
\* b0, a1 and a2 at their pre-call values.
C7_NotchAcceptsAnyRadius ==
  [][(/\ Called("setNotch")
      /\ InRange(call'.frequency, srate)
      /\ Geq(call'.param, Zero))
     => /\ warnings' = 0
        /\ b_'[2] = Mul(call'.param, call'.param)
        /\ b_'[1] = Mul(Mul(Neg(Two), call'.param),
                        CosTwoPi(call'.frequency, srate))
        /\ b_'[0] = b_[0] /\ a_'[1] = a_[1] /\ a_'[2] = a_[2]]_vars

\* setNotch has placed zeros on the unit circle (radius 1) of a filter whose
\* poles are no longer those of construction
C7_Witness ==
  /\ call.op = "setNotch"
  /\ InRange(call.frequency, srate)
  /\ call.param = One
  /\ warnings = 0
  /\ b_[2] = One
  /\ a_[2] # Zero

\* C8: after setEqualGainZeroes, from any prior coefficients and at any
\* sample rate, b0 = 1, b1 = 0, b2 = -1 and a1 and a2 are as before the call.
C8_EqualGainZeroes ==
  [][Called("setEqualGainZeroes")
     => /\ b_'[0] = One /\ b_'[1] = Zero /\ b_'[2] = Neg(One)
        /\ a_'[1] = a_[1] /\ a_'[2] = a_[2]]_vars

\* setEqualGainZeroes has been called on a filter whose poles are no longer
\* those of construction
C8_Witness ==
  /\ call.op = "setEqualGainZeroes"
  /\ a_[1] # Zero
  /\ a_[2] # Zero

\* C9: a sample-rate-change notification changes none of the five
\* coefficients and warns if and only if the ignore flag is not set.
C9_SampleRateChangedOnlyWarns ==
  [][Called("sampleRateChanged")
     => /\ CoefficientsKept
        /\ warnings' = IF ignoreSampleRateChange_ THEN 0 ELSE 1]_vars

\* the filter was told to ignore rate changes and a notification came
C9_Witness ==
  /\ call.op = "sampleRateChanged"
  /\ ignoreSampleRateChange_
  /\ warnings = 0
  /\ srate # Rat(8, 1)

\* C10: for valid (frequency, Q), setFilterType(AllPass, ...) writes a1 and
\* a2 by the common formulas and leaves b0 = a2, b1 = a1 and b2 = 1 = a0,
\* with a1 and a2 the values the call has just written.
C10_AllPassMirrorsDenominator ==
  [][(/\ Called("setFilterType")
      /\ call'.filterType = "AllPass"
      /\ InRange(call'.frequency, srate)
      /\ Geq(call'.param, Zero))
     => /\ a_'[1] = FilterA1(FilterK(call'.frequency, srate), call'.param)
        /\ a_'[2] = FilterA2(FilterK(call'.frequency, srate), call'.param)
        /\ b_'[0] = a_'[2]
        /\ b_'[1] = a_'[1]
        /\ b_'[2] = One
        /\ b_'[2] = a_'[0]]_vars

\* an all-pass design has been computed with finite, non-zero denominator
\* coefficients
C10_Witness ==
  /\ call.op = "setFilterType"
  /\ call.filterType = "AllPass"
  /\ InRange(call.frequency, srate)
  /\ Geq(call.param, Zero)
  /\ a_[1] # Zero /\ a_[1][2] # 0
  /\ a_[2] # Zero /\ a_[2][2] # 0
  /\ b_[0] = a_[2]
====
